---- MODULE Spec2Model ----
(***************************************************************************)
(* Model of the datadog_service_level_objective data source:               *)
(* dataSourceServiceLevelObjectiveRead (the lookup resolver) and the       *)
(* computed part of the schema it writes to.                               *)
(*                                                                         *)
(* One invocation of the read handler is followed statement by statement;  *)
(* pc names the statement that runs next.  The caller's configuration, the *)
(* service's answer and the outcome of every d.Set call are inputs.        *)
(***************************************************************************)
EXTENDS Integers, Sequences, FiniteSets, TLC

VARIABLES
    d_raw,      \* the caller's configuration of the three filters
    req,        \* the ListSLOs request under construction / as sent
    execCount,  \* number of times req.Execute() ran
    resp,       \* what Execute returned: [err, data]
    pc,         \* statement of the handler that runs next
    attrs,      \* the output attribute store: key -> value, written keys only
    calls,      \* keys of the d.Set calls made so far, in call order
    id,         \* the resource identifier: [set, val]
    ret         \* the handler's return value

vars == <<d_raw, req, execCount, resp, pc, attrs, calls, id, ret>>

----------------------------------------------------------------------------
(* Bounds *)

\* longest threshold list of an SLO returned by the service
MaxThresholds == 2

\* largest number of SLOs in a list response
MaxSLOs == 2

----------------------------------------------------------------------------
(* Input domains *)

\* a filter in the configuration: not given, given as "", given as a text
FilterConfigs ==
    { [set |-> FALSE, val |-> ""],
      [set |-> TRUE,  val |-> ""],
      [set |-> TRUE,  val |-> "checkout latency"] }

NoErr == "<nil>"

\* errors req.Execute() can return
ClientErrors == { "403 Forbidden" }

SLOTYPE_MONITOR == "monitor"

SLOTypes == { SLOTYPE_MONITOR, "metric", "time_slice" }

\* an optional field of the API model: a pointer that is nil or holds val
Absent(zero) == [ok |-> FALSE, val |-> zero]

Present(v) == [ok |-> TRUE, val |-> v]

\* the value a present field holds here is the zero value of its type
OptFloat == { Absent(0), Present(0) }

OptDisplay == { Absent(""), Present("") }

SourceThresholds ==
    [ timeframe : {"7d"}, target : {99},
      warning : OptFloat,
      target_display : OptDisplay,
      warning_display : OptDisplay ]

Timeframes == <<"7d", "30d", "90d", "custom">>

\* threshold lists of length <= MaxThresholds; the i-th entry carries the
\* i-th timeframe so that the entries of one list are told apart
ThresholdLists ==
    UNION { { [i \in 1..n |-> [f[i] EXCEPT !.timeframe = Timeframes[i]]] :
                f \in [1..n -> SourceThresholds] } : n \in 0..MaxThresholds }

SourceQuery == [numerator |-> "sum:good{*}", denominator |-> "sum:total{*}"]

SLOs ==
    [ id : {"slo-a", "slo-b"},
      name : {"checkout"},
      description : {"latency of checkout"},
      type : SLOTypes,
      tags : {<<"env:prod", "team:web">>},
      thresholds : ThresholdLists,
      monitor_ids : {{}, {123, 456}},
      groups : {{}, {"env:prod"}},
      query : {SourceQuery} ]

\* the SLOs a response with several entries is made of
OtherSLOs == { s \in SLOs : s.thresholds = <<>> /\ s.monitor_ids = {}
                            /\ s.groups = {} /\ s.type = "metric" }

ResponseData ==
    {<<>>} \cup { <<s>> : s \in SLOs }
           \cup UNION { [1..n -> OtherSLOs] : n \in 2..MaxSLOs }

----------------------------------------------------------------------------
(* Schema *)

\* the optional inputs of the schema
InputFields == {"name_query", "tags_filter", "metrics_query"}

\* the computed outputs of the schema (monitor_search is a removed field)
ComputedFields ==
    {"name", "description", "tags", "thresholds", "type", "force_delete",
     "query", "monitor_ids", "groups", "validate"}

----------------------------------------------------------------------------
(* Helpers of the handler *)

\* d.GetOk(key): the value, and whether the key is set to a non-zero value
\* (schema.ResourceData.GetOk reports ok = false for the zero value "")
GetOk(raw) == [v |-> raw.val, ok |-> raw.set /\ raw.val # ""]

\* a request parameter: attached with a value, or not attached
NoParam == [present |-> FALSE, val |-> ""]

Param(v) == [present |-> TRUE, val |-> v]

\* req = ListSLOs(authV1): no parameter attached
ListSLOs == [Query |-> NoParam, TagsQuery |-> NoParam, MetricsQuery |-> NoParam]

\* the three `if v, ok := d.GetOk(..); ok { req = req.X(v) }` statements
BuildRequest_crossed(raw) ==
    [ Query        |-> IF GetOk(raw.name_query).ok
                       THEN Param(GetOk(raw.name_query).v) ELSE NoParam,
      TagsQuery    |-> IF GetOk(raw.metrics_query).ok
                       THEN Param(GetOk(raw.metrics_query).v) ELSE NoParam,
      MetricsQuery |-> IF GetOk(raw.tags_filter).ok
                       THEN Param(GetOk(raw.tags_filter).v) ELSE NoParam ]

BuildRequest(raw) ==
    [ Query        |-> IF GetOk(raw.name_query).ok
                       THEN Param(GetOk(raw.name_query).v) ELSE ListSLOs.Query,
      TagsQuery    |-> IF GetOk(raw.tags_filter).ok
                       THEN Param(GetOk(raw.tags_filter).v) ELSE ListSLOs.TagsQuery,
      MetricsQuery |-> IF GetOk(raw.metrics_query).ok
                       THEN Param(GetOk(raw.metrics_query).v) ELSE ListSLOs.MetricsQuery ]

\* return values
Pending == [kind |-> "pending"]

Nil == [kind |-> "nil"]

ErrMoreThanOne ==
    [kind |-> "error",
     msg |-> "your query returned more than one result, please try a more specific search criteria"]

ErrNoResult ==
    [kind |-> "error",
     msg |-> "your query returned no result, please try a less specific search criteria"]

\* utils.TranslateClientError(err, msg): the client's error under a context
TranslateClientError(err, msg) ==
    [kind |-> "translated", context |-> msg, cause |-> err]

\* the error a failing d.Set(key, ..) returns
SetError(key) == [kind |-> "set_error", key |-> key]

\* the two length checks on slos: the error returned, or Nil to go on
CountCheck_first(n) ==
    IF n > 1 THEN Nil
    ELSE IF n = 0 THEN ErrNoResult
    ELSE Nil

CountCheck_swapped(n) ==
    IF n > 1 THEN ErrMoreThanOne
    ELSE IF n = 0 THEN ErrMoreThanOne
    ELSE Nil

CountCheck(n) ==
    IF n > 1 THEN ErrMoreThanOne
    ELSE IF n = 0 THEN ErrNoResult
    ELSE Nil

\* the map t built from one threshold in the loop
ThresholdKeys_nonzero(th) ==
    {"timeframe", "target"}
        \cup (IF th.warning.ok /\ th.warning.val # 0 THEN {"warning"} ELSE {})
        \cup (IF th.target_display.ok /\ th.target_display.val # ""
              THEN {"target_display"} ELSE {})
        \cup (IF th.warning_display.ok /\ th.warning_display.val # ""
              THEN {"warning_display"} ELSE {})

ThresholdKeys(th) ==
    {"timeframe", "target"}
        \cup (IF th.warning.ok THEN {"warning"} ELSE {})
        \cup (IF th.target_display.ok THEN {"target_display"} ELSE {})
        \cup (IF th.warning_display.ok THEN {"warning_display"} ELSE {})

ThresholdMap(th) ==
    [ k \in ThresholdKeys(th) |->
        CASE k = "timeframe"       -> th.timeframe
          [] k = "target"          -> th.target
          [] k = "warning"         -> th.warning.val
          [] k = "target_display"  -> th.target_display.val
          [] k = "warning_display" -> th.warning_display.val ]

\* thresholds: one map per threshold of the SLO, appended in source order
Thresholds(slo) ==
    [ i \in 1..Len(slo.thresholds) |-> ThresholdMap(slo.thresholds[i]) ]

\* tags: the SLO's tags copied one by one
Tags(slo) == [ i \in 1..Len(slo.tags) |-> slo.tags[i] ]

\* the value written to "query": one map of numerator and denominator
QueryList(slo) ==
    << [numerator |-> slo.query.numerator, denominator |-> slo.query.denominator] >>

\* the first statement of the switch on slo.GetType() that calls d.Set
TypeBranch_always(slo) ==
    IF slo.type = SLOTYPE_MONITOR THEN "monitor_ids" ELSE "query"

TypeBranch_inverted(slo) ==
    IF slo.type # SLOTYPE_MONITOR
    THEN (IF Cardinality(slo.monitor_ids) > 0 THEN "monitor_ids" ELSE "groups")
    ELSE "query"

TypeBranch(slo) ==
    IF slo.type = SLOTYPE_MONITOR
    THEN (IF Cardinality(slo.monitor_ids) > 0 THEN "monitor_ids" ELSE "groups")
    ELSE "query"

\* the matched SLO: slos[0]
Slo == resp.data[1]

\* the store after d.Set(key, val) succeeded
Store(key, val) ==
    [ k \in (DOMAIN attrs) \cup {key} |-> IF k = key THEN val ELSE attrs[k] ]

\* `if err := d.Set(key, val); err != nil { return err }`, then go to next
DSet_swallow(key, val, next) ==
    /\ calls' = Append(calls, key)
    /\ \E fails \in BOOLEAN :
         IF fails
         THEN /\ attrs' = attrs
              /\ pc' = next
              /\ ret' = ret
         ELSE /\ attrs' = Store(key, val)
              /\ pc' = next
              /\ ret' = ret
    /\ UNCHANGED <<d_raw, req, execCount, resp, id>>

DSet(key, val, next) ==
    /\ calls' = Append(calls, key)
    /\ \E fails \in BOOLEAN :
         IF fails
         THEN /\ attrs' = attrs
              /\ pc' = "done"
              /\ ret' = SetError(key)
         ELSE /\ attrs' = Store(key, val)
              /\ pc' = next
              /\ ret' = ret
    /\ UNCHANGED <<d_raw, req, execCount, resp, id>>

----------------------------------------------------------------------------
(* The handler *)

Init ==
    /\ d_raw \in [InputFields -> FilterConfigs]
    /\ req = ListSLOs
    /\ execCount = 0
    /\ resp = [err |-> NoErr, data |-> <<>>]
    /\ pc = "build"
    /\ attrs = [k \in {} |-> ""]
    /\ calls = <<>>
    /\ id = [set |-> FALSE, val |-> ""]
    /\ ret = Pending

\* req := ListSLOs(authV1) with the filters attached
Build ==
    /\ pc = "build"
    /\ req' = BuildRequest(d_raw)
    /\ pc' = "execute"
    /\ UNCHANGED <<d_raw, execCount, resp, attrs, calls, id, ret>>

\* sloResponse, _, err := req.Execute(); if err != nil { return ... }
Execute_ignore ==
    /\ pc = "execute"
    /\ execCount' = execCount + 1
    /\ \/ \E e \in ClientErrors :
            /\ resp' = [err |-> e, data |-> <<>>]
            /\ ret' = ret
            /\ pc' = "count"
       \/ \E data \in ResponseData :
            /\ resp' = [err |-> NoErr, data |-> data]
            /\ ret' = ret
            /\ pc' = "count"
    /\ UNCHANGED <<d_raw, req, attrs, calls, id>>

Execute ==
    /\ pc = "execute"
    /\ execCount' = execCount + 1
    /\ \/ \E e \in ClientErrors :
            /\ resp' = [err |-> e, data |-> <<>>]
            /\ ret' = TranslateClientError(e, "error querying monitors")
            /\ pc' = "done"
       \/ \E data \in ResponseData :
            /\ resp' = [err |-> NoErr, data |-> data]
            /\ ret' = ret
            /\ pc' = "count"
    /\ UNCHANGED <<d_raw, req, attrs, calls, id>>

\* slos := sloResponse.GetData() and the two checks of len(slos)
Count ==
    /\ pc = "count"
    /\ IF CountCheck(Len(resp.data)) # Nil
       THEN /\ ret' = CountCheck(Len(resp.data))
            /\ pc' = "done"
       ELSE /\ ret' = ret
            /\ pc' = "name"
    /\ UNCHANGED <<d_raw, req, execCount, resp, attrs, calls, id>>

SetName_skip ==
    /\ pc = "name"
    /\ DSet("name", Slo.name, "type")

SetName ==
    /\ pc = "name"
    /\ DSet("name", Slo.name, "description")

SetDescription ==
    /\ pc = "description"
    /\ DSet("description", Slo.description, "type")

SetType ==
    /\ pc = "type"
    /\ DSet("type", Slo.type, "tags")

SetTags ==
    /\ pc = "tags"
    /\ DSet("tags", Tags(Slo), "thresholds")

SetThresholds ==
    /\ pc = "thresholds"
    /\ DSet("thresholds", Thresholds(Slo), TypeBranch(Slo))

SetMonitorIds ==
    /\ pc = "monitor_ids"
    /\ DSet("monitor_ids", Slo.monitor_ids, "groups")

SetGroups ==
    /\ pc = "groups"
    /\ DSet("groups", Slo.groups, "id")

SetQuery ==
    /\ pc = "query"
    /\ DSet("query", QueryList(Slo), "id")

\* d.SetId(slo.GetId()); return nil
SetId_name ==
    /\ pc = "id"
    /\ id' = [set |-> TRUE, val |-> Slo.name]
    /\ ret' = Nil
    /\ pc' = "done"
    /\ UNCHANGED <<d_raw, req, execCount, resp, attrs, calls>>

SetId ==
    /\ pc = "id"
    /\ id' = [set |-> TRUE, val |-> Slo.id]
    /\ ret' = Nil
    /\ pc' = "done"
    /\ UNCHANGED <<d_raw, req, execCount, resp, attrs, calls>>

Next ==
    \/ Build
    \/ Execute
    \/ Count
    \/ SetName
    \/ SetDescription
    \/ SetType
    \/ SetTags
    \/ SetThresholds
    \/ SetMonitorIds
    \/ SetGroups
    \/ SetQuery
    \/ SetId

Spec == Init /\ [][Next]_vars

----------------------------------------------------------------------------
(* Vocabulary of the properties *)

Range(s) == { s[i] : i \in DOMAIN s }

IsPrefix(s, t) == Len(s) <= Len(t) /\ SubSeq(t, 1, Len(s)) = s

Written == DOMAIN attrs

\* the list call returned without an error
ListSucceeded == execCount = 1 /\ resp.err = NoErr

Returned == pc = "done"

Succeeded == pc = "done" /\ ret = Nil

Failed == pc = "done" /\ ret # Nil

CommonOutputs == <<"name", "description", "type", "tags", "thresholds">>

\* the d.Set calls of a lookup that matched slo, in the order of the claims
ExpectedOrder(slo) ==
    CommonOutputs \o
      (IF slo.type = "monitor"
       THEN (IF slo.monitor_ids = {} THEN <<>> ELSE <<"monitor_ids">>) \o <<"groups">>
       ELSE <<"query">>)

NothingWritten == Written = {} /\ calls = <<>> /\ ~id.set

----------------------------------------------------------------------------
(* C1: whatever the filters, when the list call succeeds with zero SLOs the
   handler goes no further than the count check, returns the "no result"
   error, and has written no output and set no identifier. *)
C1_NoResult ==
    (ListSucceeded /\ Len(resp.data) = 0) =>
        /\ pc \in {"count", "done"}
        /\ (pc = "done" => ret = ErrNoResult)
        /\ NothingWritten

C1_Witness ==
    /\ ListSucceeded /\ Len(resp.data) = 0
    /\ pc = "done" /\ ret = ErrNoResult
    /\ req.Query.present /\ ~req.TagsQuery.present

(* C2: whatever the filters, when the list call succeeds with more than one
   SLO the handler goes no further than the count check, returns the "more
   than one result" error, and has written no output and set no identifier:
   none of the returned SLOs is picked. *)
C2_MoreThanOne ==
    (ListSucceeded /\ Len(resp.data) > 1) =>
        /\ pc \in {"count", "done"}
        /\ (pc = "done" => ret = ErrMoreThanOne)
        /\ NothingWritten

C2_Witness ==
    /\ ListSucceeded /\ Len(resp.data) = 2
    /\ resp.data[1].id # resp.data[2].id
    /\ pc = "done" /\ ret = ErrMoreThanOne

(* C3 as stated: after a successful lookup every computed field of the
   schema is populated and the identifier is the matched SLO's. *)
C3_AllComputedPopulated ==
    Succeeded =>
        /\ ComputedFields \subseteq Written
        /\ id = [set |-> TRUE, val |-> Slo.id]

(* C3 as amended: after a successful lookup of exactly one SLO, name,
   description, type, tags and thresholds hold the SLO's values, groups or
   query is populated, nothing outside the computed fields is written,
   force_delete and validate are never written, and the identifier is the
   matched SLO's identifier. *)
C3_Populated ==
    Succeeded =>
        /\ Len(resp.data) = 1
        /\ Range(CommonOutputs) \subseteq Written
        /\ attrs["name"] = Slo.name
        /\ attrs["description"] = Slo.description
        /\ attrs["type"] = Slo.type
        /\ attrs["tags"] = Slo.tags
        /\ Len(attrs["thresholds"]) = Len(Slo.thresholds)
        /\ ("groups" \in Written \/ "query" \in Written)
        /\ Written \subseteq ComputedFields \ {"force_delete", "validate"}
        /\ id = [set |-> TRUE, val |-> Slo.id]

C3_Witness ==
    /\ Succeeded
    /\ Slo.id = "slo-b"
    /\ id.val = "slo-b"
    /\ d_raw["name_query"].set /\ d_raw["tags_filter"].set

(* C4 as stated: after a successful lookup of a monitor-type SLO query is
   unset and monitor_ids and groups are populated; for any other type query
   holds one {numerator, denominator} element and monitor_ids and groups
   are unset. *)
C4_Exclusive ==
    Succeeded =>
        IF Slo.type = "monitor"
        THEN /\ "query" \notin Written
             /\ "monitor_ids" \in Written
             /\ "groups" \in Written
        ELSE /\ "query" \in Written
             /\ Len(attrs["query"]) = 1
             /\ attrs["query"][1] = [numerator |-> Slo.query.numerator,
                                     denominator |-> Slo.query.denominator]
             /\ "monitor_ids" \notin Written
             /\ "groups" \notin Written

(* C4 as amended: as stated, except that for a monitor-type SLO monitor_ids
   is populated when the SLO has at least one monitor identifier and is
   unset when it has none. *)
C4_ExclusiveNonEmpty ==
    Succeeded =>
        IF Slo.type = "monitor"
        THEN /\ "query" \notin Written
             /\ ("monitor_ids" \in Written) = (Slo.monitor_ids # {})
             /\ "groups" \in Written
        ELSE /\ "query" \in Written
             /\ Len(attrs["query"]) = 1
             /\ attrs["query"][1] = [numerator |-> Slo.query.numerator,
                                     denominator |-> Slo.query.denominator]
             /\ "monitor_ids" \notin Written
             /\ "groups" \notin Written

C4_Witness ==
    /\ Succeeded
    /\ Slo.type = "time_slice"
    /\ Slo.monitor_ids # {} /\ Slo.groups # {}
    /\ "query" \in Written

(* C5: after a successful lookup the thresholds output has one entry per
   threshold of the matched SLO, in source order; each entry carries the
   threshold's timeframe and target, and carries warning, target_display,
   warning_display exactly when the source marks that field present, each
   independently of the others and of the field's value. *)
C5_Thresholds ==
    Succeeded =>
        /\ Len(attrs["thresholds"]) = Len(Slo.thresholds)
        /\ \A i \in 1..Len(Slo.thresholds) :
             LET out == attrs["thresholds"][i]
                 src == Slo.thresholds[i]
             IN /\ {"timeframe", "target"} \subseteq DOMAIN out
                /\ out["timeframe"] = src.timeframe
                /\ out["target"] = src.target
                /\ ("warning" \in DOMAIN out) = src.warning.ok
                /\ ("target_display" \in DOMAIN out) = src.target_display.ok
                /\ ("warning_display" \in DOMAIN out) = src.warning_display.ok
                /\ (src.warning.ok => out["warning"] = src.warning.val)
                /\ (src.target_display.ok =>
                        out["target_display"] = src.target_display.val)
                /\ (src.warning_display.ok =>
                        out["warning_display"] = src.warning_display.val)

C5_Witness ==
    /\ Succeeded
    /\ Len(Slo.thresholds) = 2
    /\ Slo.thresholds[1].warning = Present(0)
    /\ ~Slo.thresholds[1].target_display.ok
    /\ Slo.thresholds[1].warning_display = Present("")
    /\ ~Slo.thresholds[2].warning.ok
    /\ DOMAIN attrs["thresholds"][1] = {"timeframe", "target", "warning", "warning_display"}
    /\ attrs["thresholds"][2]["timeframe"] = "30d"

(* C6 as stated: when the handler has returned, either it succeeded with
   all applicable outputs set, or it failed with no output set. *)
C6_AllOrNothing ==
    Returned =>
        \/ ret = Nil /\ Written = Range(ExpectedOrder(Slo))
        \/ ret # Nil /\ Written = {}

(* C6 as amended: when the handler has returned, either it succeeded with
   all applicable outputs and the identifier set; or it failed on the
   transport error or the result count with no output set; or it failed on
   an output assignment, and then exactly the outputs assigned before the
   failing one are set, a strict subset of the applicable ones.  The
   identifier is not set on any failure. *)
C6_AllOrPrefix ==
    Returned =>
        \/ /\ ret = Nil
           /\ Written = Range(ExpectedOrder(Slo))
           /\ id.set
        \/ /\ ret.kind \in {"translated", "error"}
           /\ Written = {}
           /\ ~id.set
        \/ /\ ret.kind = "set_error"
           /\ calls # <<>>
           /\ Written = Range(SubSeq(calls, 1, Len(calls) - 1))
           /\ Written # Range(ExpectedOrder(Slo))
           /\ Written \subseteq Range(ExpectedOrder(Slo))
           /\ ~id.set

C6_Witness ==
    /\ Failed
    /\ ret = SetError("groups")
    /\ Written = Range(CommonOutputs) \cup {"monitor_ids"}

(* C7: when executing the list request returns an error, the handler
   returns that error translated under the context "error querying
   monitors"; the count check is not reached, no output is written, the
   identifier is not set, and the request was executed once.  The request is
   never executed more than once. *)
C7_TransportError ==
    /\ execCount <= 1
    /\ (execCount = 1 /\ resp.err # NoErr) =>
          /\ pc = "done"
          /\ ret = TranslateClientError(resp.err, "error querying monitors")
          /\ NothingWritten

C7_Witness ==
    /\ execCount = 1
    /\ resp.err = "403 Forbidden"
    /\ pc = "done"
    /\ ret.kind = "translated"

(* C8 as stated: once built, the request carries Query, TagsQuery,
   MetricsQuery exactly when the caller supplied name_query, tags_filter,
   metrics_query, with the supplied value. *)
C8_CarriesIffSupplied ==
    pc # "build" =>
        /\ req.Query.present = d_raw["name_query"].set
        /\ req.TagsQuery.present = d_raw["tags_filter"].set
        /\ req.MetricsQuery.present = d_raw["metrics_query"].set
        /\ (req.Query.present => req.Query.val = d_raw["name_query"].val)
        /\ (req.TagsQuery.present => req.TagsQuery.val = d_raw["tags_filter"].val)
        /\ (req.MetricsQuery.present =>
                req.MetricsQuery.val = d_raw["metrics_query"].val)

(* C8 as amended: once built, the request carries Query, TagsQuery,
   MetricsQuery exactly when the caller supplied a non-empty name_query,
   tags_filter, metrics_query, with the supplied value unchanged; a filter
   that is absent or empty attaches nothing to the request. *)
C8_CarriesIffNonEmpty ==
    pc # "build" =>
        /\ req.Query.present =
              (d_raw["name_query"].set /\ d_raw["name_query"].val # "")
        /\ req.TagsQuery.present =
              (d_raw["tags_filter"].set /\ d_raw["tags_filter"].val # "")
        /\ req.MetricsQuery.present =
              (d_raw["metrics_query"].set /\ d_raw["metrics_query"].val # "")
        /\ (req.Query.present => req.Query.val = d_raw["name_query"].val)
        /\ (req.TagsQuery.present => req.TagsQuery.val = d_raw["tags_filter"].val)
        /\ (req.MetricsQuery.present =>
                req.MetricsQuery.val = d_raw["metrics_query"].val)
        /\ (~req.Query.present => req.Query = ListSLOs.Query)
        /\ (~req.TagsQuery.present => req.TagsQuery = ListSLOs.TagsQuery)
        /\ (~req.MetricsQuery.present => req.MetricsQuery = ListSLOs.MetricsQuery)

C8_Witness ==
    /\ pc = "execute"
    /\ ~d_raw["name_query"].set
    /\ d_raw["tags_filter"] = [set |-> TRUE, val |-> "checkout latency"]
    /\ d_raw["metrics_query"] = [set |-> TRUE, val |-> ""]
    /\ req = [Query |-> NoParam, TagsQuery |-> Param("checkout latency"),
              MetricsQuery |-> NoParam]

(* C9: the d.Set calls made so far are always an initial part of name,
   description, type, tags, thresholds, then the outputs of the SLO's type;
   when a call fails the handler returns that call's error at once, the
   failing call is the last one made and wrote nothing; the identifier is
   set only in a call that returned success after all assignments. *)
C9_Order ==
    /\ (calls # <<>> =>
          /\ ListSucceeded /\ Len(resp.data) = 1
          /\ IsPrefix(calls, ExpectedOrder(Slo)))
    /\ (ret.kind = "set_error" =>
          /\ pc = "done"
          /\ calls # <<>>
          /\ ret.key = calls[Len(calls)]
          /\ ret.key \notin Written
          /\ ~id.set)
    /\ (Failed => ~id.set)
    /\ (id.set =>
          /\ Succeeded
          /\ calls = ExpectedOrder(Slo)
          /\ Range(calls) = Written)

C9_Witness ==
    /\ Failed
    /\ ret = SetError("tags")
    /\ calls = <<"name", "description", "type", "tags">>
    /\ Written = {"name", "description", "type"}

(* C10: after a successful lookup of a monitor-type SLO, monitor_ids was
   assigned exactly when the SLO's set of monitor identifiers is non-empty,
   and then holds that set; groups was assigned in every case and holds the
   SLO's set of group labels, the empty set included. *)
C10_MonitorBranch ==
    (Succeeded /\ Slo.type = "monitor") =>
        /\ ("monitor_ids" \in Range(calls)) = (Slo.monitor_ids # {})
        /\ ("monitor_ids" \in Written) = (Slo.monitor_ids # {})
        /\ ("monitor_ids" \in Written => attrs["monitor_ids"] = Slo.monitor_ids)
        /\ "groups" \in Range(calls)
        /\ "groups" \in Written
        /\ attrs["groups"] = Slo.groups

C10_Witness ==
    /\ Succeeded
    /\ Slo.type = "monitor"
    /\ Slo.monitor_ids = {}
    /\ Slo.groups = {}
    /\ "monitor_ids" \notin Written
    /\ attrs["groups"] = {}

====
